---- MODULE Spec2Model ----
(***************************************************************************)
(* A model of the voice-agent relay: the WebSocket session orchestrator    *)
(* (app/main.py), the response generator (app/services/agent.py and        *)
(* app/services/llm.py) and the streaming transcriber                      *)
(* (app/services/stt.py).                                                  *)
(*                                                                         *)
(* Text is a sequence of one-character strings, so that strip, lower,      *)
(* upper, substring search and the sentence split are computed, character  *)
(* by character, as Python computes them.                                  *)
(***************************************************************************)
EXTENDS Integers, Sequences, FiniteSets, TLC

(***************************************************************************)
(* Bounds of the model.                                                    *)
(***************************************************************************)
MaxTurns == 2
MaxFrames == 1
MaxChunks == 2
MaxErrors == 2
MaxCloses == 2

(***************************************************************************)
(* Text helpers: str.strip, str.lower, str.upper, the `in` substring test. *)
(***************************************************************************)
UpperChars == <<"A","B","C","D","E","F","G","H","I","J","K","L","M","N","O","P","Q","R","S","T","U","V","W","X","Y","Z">>

LowerChars == <<"a","b","c","d","e","f","g","h","i","j","k","l","m","n","o","p","q","r","s","t","u","v","w","x","y","z">>

IsSpace(c) == c \in {" ", "\t", "\n", "\r"}

IsSentenceEnd(c) == c \in {".", "?", "!"}

LowerChar(c) ==
  IF \E i \in DOMAIN UpperChars : UpperChars[i] = c
  THEN LowerChars[CHOOSE i \in DOMAIN UpperChars : UpperChars[i] = c]
  ELSE c

UpperChar(c) ==
  IF \E i \in DOMAIN LowerChars : LowerChars[i] = c
  THEN UpperChars[CHOOSE i \in DOMAIN LowerChars : LowerChars[i] = c]
  ELSE c

Lower(s) == [i \in 1..Len(s) |-> LowerChar(s[i])]

Upper(s) == [i \in 1..Len(s) |-> UpperChar(s[i])]

\* word in text
Contains(text, word) ==
  \E i \in 0..(Len(text) - Len(word)) : SubSeq(text, i + 1, i + Len(word)) = word

\* text.strip(): the text between its first and its last non-space character
Strip(s) ==
  LET keep == {i \in 1..Len(s) : ~IsSpace(s[i])}
  IN  IF keep = {} THEN <<>>
      ELSE LET lo == CHOOSE i \in keep : \A j \in keep : i <= j
               hi == CHOOSE i \in keep : \A j \in keep : j <= i
           IN  SubSeq(s, lo, hi)

(***************************************************************************)
(* re.split(r'(?<=[.?!])\s+', text): a separator is a maximal run of       *)
(* white space that directly follows a sentence-ending character.          *)
(***************************************************************************)
RECURSIVE SplitSentences(_)
SplitSentences(text) ==
  LET n == Len(text)
      starts == {i \in 2..n : IsSentenceEnd(text[i - 1]) /\ IsSpace(text[i])}
  IN  IF starts = {} THEN <<text>>
      ELSE LET i == CHOOSE k \in starts : \A m \in starts : k <= m
               j == CHOOSE k \in i..n :
                      /\ \A m \in i..k : IsSpace(text[m])
                      /\ (k = n \/ ~IsSpace(text[k + 1]))
           IN  <<SubSeq(text, 1, i - 1)>> \o SplitSentences(SubSeq(text, j + 1, n))

(***************************************************************************)
(* app/services/llm.py: get_llm_response.                                  *)
(***************************************************************************)
max_retries == 3

KeyMissingMessage == <<"P","l","e","a","s","e"," ","c","o","n","f","i","g","u","r","e"," ","y","o","u","r"," ","G","e","m","i","n","i"," ","A","P","I"," ","k","e","y"," ","i","n"," ","t","h","e"," ","s","e","t","t","i","n","g","s",".">>

InvalidKeyMessage == <<"I","n","v","a","l","i","d"," ","G","e","m","i","n","i"," ","A","P","I"," ","k","e","y","."," ","P","l","e","a","s","e"," ","c","h","e","c","k"," ","y","o","u","r"," ","c","o","n","f","i","g","u","r","a","t","i","o","n",".">>

QuotaMessage == <<"A","P","I"," ","q","u","o","t","a"," ","e","x","c","e","e","d","e","d","."," ","P","l","e","a","s","e"," ","c","h","e","c","k"," ","y","o","u","r"," ","G","e","m","i","n","i"," ","A","P","I"," ","u","s","a","g","e"," ","l","i","m","i","t","s",".">>

NetworkMessage == <<"N","e","t","w","o","r","k"," ","c","o","n","n","e","c","t","i","v","i","t","y"," ","i","s","s","u","e","."," ","P","l","e","a","s","e"," ","c","h","e","c","k"," ","y","o","u","r"," ","i","n","t","e","r","n","e","t"," ","c","o","n","n","e","c","t","i","o","n",".">>

GenericMessage == <<"I","'","m"," ","e","x","p","e","r","i","e","n","c","i","n","g"," ","t","e","c","h","n","i","c","a","l"," ","d","i","f","f","i","c","u","l","t","i","e","s","."," ","P","l","e","a","s","e"," ","t","r","y"," ","a","g","a","i","n"," ","i","n"," ","a"," ","m","o","m","e","n","t",".">>

\* str(ValueError("Empty response from model"))
EmptyResponseError == <<"E","m","p","t","y"," ","r","e","s","p","o","n","s","e"," ","f","r","o","m"," ","m","o","d","e","l">>

\* the if/elif chain over str(e).upper()
ErrorMessage(error) ==
  LET error_str == Upper(error)
  IN  IF Contains(error_str, <<"A","P","I","_","K","E","Y">>) \/ Contains(error_str, <<"I","N","V","A","L","I","D">>)
      THEN InvalidKeyMessage
      ELSE IF Contains(error_str, <<"Q","U","O","T","A">>) \/ Contains(error_str, <<"L","I","M","I","T">>)
      THEN QuotaMessage
      ELSE IF Contains(error_str, <<"N","E","T","W","O","R","K">>) \/ Contains(error_str, <<"C","O","N","N","E","C","T","I","O","N">>)
      THEN NetworkMessage
      ELSE GenericMessage

\* What one call returns, and what it did on the way: `same` says that the
\* returned history is the very list object the caller passed in.
Returned(text, history, same, llmCalls, searchCalls, sleeps) ==
  [raised |-> FALSE, text |-> text, history |-> history, same |-> same,
   llmCalls |-> llmCalls, searchCalls |-> searchCalls, sleeps |-> sleeps]

Raised(history, llmCalls, searchCalls) ==
  [raised |-> TRUE, text |-> <<>>, history |-> history, same |-> TRUE,
   llmCalls |-> llmCalls, searchCalls |-> searchCalls, sleeps |-> 0]

\* chat.history after a successful send_message: the prior turns, the user
\* turn and the model turn
ChatHistory(history, user_query, response_text) ==
  history \o <<[role |-> "user", text |-> user_query],
               [role |-> "model", text |-> response_text]>>

\* the outer except clause: the message for the error, the caller's history
LlmFailure(error, history, llmCalls, sleeps) ==
  Returned(ErrorMessage(error), history, TRUE, llmCalls, 0, sleeps)

\* what the retry loop does with a failed attempt
RetryExhaustedWrong(attempt) == attempt = max_retries - 2

RetryExhausted(attempt) == attempt = max_retries - 1

\* one iteration of `for attempt in range(max_retries)` and those after it;
\* outcomes[attempt + 1] is what chat.send_message does on that attempt
RECURSIVE LlmAttempt(_, _, _, _)
LlmAttempt(user_query, history, outcomes, attempt) ==
  LET o == outcomes[attempt + 1]
  IN  IF o.kind = "text" /\ Strip(o.text) # <<>>
      THEN Returned(Strip(o.text), ChatHistory(history, user_query, o.text),
                    FALSE, attempt + 1, 0, attempt)
      ELSE LET error == IF o.kind = "text" THEN EmptyResponseError ELSE o.text
           IN  IF RetryExhausted(attempt)
               THEN LlmFailure(error, history, attempt + 1, attempt)
               ELSE LlmAttempt(user_query, history, outcomes, attempt + 1)

\* env.key: GEMINI_API_KEY is set; env.setup: genai.configure and the model
\* constructor succeed, or raise the error env.setup.text
get_llm_response(user_query, history, env) ==
  IF ~env.key
  THEN Returned(KeyMissingMessage, history, TRUE, 0, 0, 0)
  ELSE IF env.setup.kind = "error"
  THEN LlmFailure(env.setup.text, history, 0, 0)
  ELSE LlmAttempt(user_query, history, env.attempts, 0)

(***************************************************************************)
(* app/services/agent.py: agent_response.                                  *)
(***************************************************************************)
search_triggers ==
  {<<"l","a","t","e","s","t">>, <<"t","o","d","a","y">>, <<"p","r","i","c","e">>, <<"w","e","a","t","h","e","r">>, <<"n","e","w","s">>, <<"u","p","d","a","t","e">>, <<"c","u","r","r","e","n","t">>}

\* a plausible slip: the query is not lower-cased before the test
TriggerMatchCaseSensitive(user_query) ==
  \E word \in search_triggers : Contains(user_query, word)

\* any(word in user_query.lower() for word in search_triggers)
TriggerMatch(user_query) ==
  \E word \in search_triggers : Contains(Lower(user_query), word)

\* app/services/search.py is not among the sources: web_search returns a text
\* or fails with an exception, as env.search says
web_search(user_query, env) == env.search

agent_response(user_query, history, env) ==
  IF TriggerMatch(user_query)
  THEN LET found == web_search(user_query, env)
       IN  IF found.kind = "error"
           THEN Raised(history, 0, 1)
           ELSE Returned(found.text, history, TRUE, 0, 1, 0)
  ELSE get_llm_response(user_query, history, env)

(***************************************************************************)
(* State.                                                                  *)
(*   call          the last agent_response call made on its own: its       *)
(*                 inputs and what it returned (SpecAgent)                 *)
(*   api_key       the transcription credential of the environment, empty  *)
(*                 when it is not set                                      *)
(*   phase         where websocket_endpoint is: "accepted" (before the     *)
(*                 transcriber is constructed), "streaming" (in the        *)
(*                 receive loop), "config_error" (the constructor raised   *)
(*                 ValueError), "connect_timeout" (it raised               *)
(*                 TimeoutError), "closed" (the finally block has run)     *)
(*   wsOpen        the client's connection is open                         *)
(*   arrived       inbound messages the client has sent                    *)
(*   received      inbound messages taken by the receive loop              *)
(*   chat_history  the session's list of turns                             *)
(*   turn          per handle_transcript task: its position and locals     *)
(*   turnEvent     the provider's turn event _on_turn handled last         *)
(*   events        the JSON events sent on the connection, in order        *)
(*   q             the transcriber's audio queue                           *)
(*   closeCalls    calls of transcriber.close made so far                  *)
(*   fed           the chunks stream_audio has put on the queue, in order  *)
(*   closedAt      how many chunks had been fed when close was first called*)
(*   thread        per background thread: where its runner is, and the     *)
(*                 client its stream call writes to                        *)
(*   client        self.client: the number of the current client           *)
(*   conn          per client: its connection ("new", "up", "down")        *)
(*   wq            per client: the chunks handed to it and not yet sent    *)
(*   delivered     the chunks the provider has received, in order          *)
(*   errors        provider errors reported to _on_error so far            *)
(***************************************************************************)
VARIABLES call, api_key, phase, wsOpen, arrived, received, chat_history, turn, turnEvent,
          events, q, closeCalls, fed, closedAt, thread, client, conn, wq, delivered,
          errors

vars == <<call, api_key, phase, wsOpen, arrived, received, chat_history, turn, turnEvent,
          events, q, closeCalls, fed, closedAt, thread, client, conn, wq, delivered,
          errors>>

agentVars == <<call>>

sessionVars == <<api_key, phase, wsOpen, arrived, received, chat_history, turn, turnEvent, events>>

sttVars == <<q, closeCalls, fed, closedAt, thread, client, conn, wq, delivered, errors>>

workerVars == <<thread, client, conn, wq, delivered, errors>>

\* one background thread at construction, one more per reconnect
Workers == 1..(MaxErrors + 1)

NoThread == [pc |-> "unstarted", client |-> 0]

Turns == 1..MaxTurns

NoCall ==
  [made |-> FALSE, query |-> <<>>, history |-> <<>>,
   env |-> [key |-> FALSE, setup |-> [kind |-> "text", text |-> <<>>],
            attempts |-> <<>>, search |-> [kind |-> "text", text |-> <<>>]],
   result |-> [raised |-> FALSE, text |-> <<>>, history |-> <<>>, same |-> FALSE,
               llmCalls |-> 0, searchCalls |-> 0, sleeps |-> 0]]

IdleTurn ==
  [pc |-> "none", text |-> <<>>, reply |-> <<>>, sentences |-> <<>>, i |-> 0,
   tts |-> <<>>]

\* a TurnEvent of the provider: its transcript and its end_of_turn flag
TurnEvent(transcript, end_of_turn) ==
  [transcript |-> transcript, end_of_turn |-> end_of_turn]

\* before the provider has reported any turn
NoEvent == TurnEvent(<<>>, FALSE)

\* os.getenv("ASSEMBLYAI_API_KEY", ""): not set, or set
Credentials == { <<>>, <<"k","e","y">> }

(***************************************************************************)
(* What the environment can do: the capabilities' outcomes.                *)
(***************************************************************************)
Text(s) == [kind |-> "text", text |-> s]

Error(s) == [kind |-> "error", text |-> s]

Env(key, setup, attempts, search) ==
  [key |-> key, setup |-> setup, attempts |-> attempts, search |-> search]

\* what chat.send_message can do on one attempt: a reply (blank, padded,
\* several sentences) or an exception with some message
SendOutcomes ==
  { Text(<<" ","h","i","."," ","o","k","!"," ">>), Text(<<" ">>), Text(<<>>),
    Error(<<"b","o","o","m">>), Error(<<"Q","u","o","t","a"," ","e","x","c","e","e","d","e","d">>), Error(<<"c","o","n","n","e","c","t","i","o","n"," ","r","e","s","e","t">>) }

SetupOutcomes == { Text(<<>>), Error(<<"i","n","v","a","l","i","d"," ","a","p","i","_","k","e","y">>) }

SearchOutcomes == { Text(<<"I","t"," ","i","s"," ","5","."," "," ","S","u","n","n","y","!">>), Text(<<>>), Error(<<"b","o","o","m">>) }

Queries ==
  { <<"h","i">>, <<"A","n","y"," ","N","e","w","s","?">>, <<"p","r","i","c","e","s">>, <<"r","e","n","e","w">>, <<"w","h","a","t","'","s"," ","t","o","d","a","y","'","s"," ","w","e","a","t","h","e","r">>, <<>> }

Histories ==
  { <<>>, <<[role |-> "user", text |-> <<"h","i">>], [role |-> "model", text |-> <<"H","e","l","l","o",".">>]>> }

AgentEnvs ==
  { Env(key, setup, <<a1, a2, a3>>, search) :
      key \in BOOLEAN, setup \in SetupOutcomes,
      a1 \in SendOutcomes, a2 \in SendOutcomes, a3 \in SendOutcomes,
      search \in SearchOutcomes }

(***************************************************************************)
(* SpecAgent: agent_response applied to every query, history and           *)
(* environment of the bounded sets.                                        *)
(***************************************************************************)
InitSession ==
  /\ phase = "accepted"
  /\ wsOpen = TRUE
  /\ arrived = 0
  /\ received = 0
  /\ chat_history = <<>>
  /\ turn = [t \in Turns |-> IdleTurn]
  /\ turnEvent = NoEvent
  /\ events = <<>>

\* before the transcriber is constructed: no queue item, no client, no thread
InitStt ==
  /\ q = <<>>
  /\ closeCalls = 0
  /\ fed = <<>>
  /\ closedAt = 0
  /\ thread = [w \in Workers |-> NoThread]
  /\ client = 0
  /\ conn = [c \in Workers |-> "new"]
  /\ wq = [c \in Workers |-> <<>>]
  /\ delivered = <<>>
  /\ errors = 0

InitAgent ==
  /\ \E user_query \in Queries, history \in Histories, env \in AgentEnvs :
       call = [made |-> FALSE, query |-> user_query, history |-> history,
               env |-> env, result |-> NoCall.result]
  /\ api_key \in Credentials \ {<<>>}
  /\ InitSession
  /\ InitStt

CallAgent ==
  /\ ~call.made
  /\ call' = [call EXCEPT !.made = TRUE,
                          !.result = agent_response(call.query, call.history, call.env)]
  /\ UNCHANGED <<sessionVars, sttVars>>

NextAgent == CallAgent

SpecAgent == InitAgent /\ [][NextAgent]_vars

(***************************************************************************)
(* Claims about the response generator (SpecAgent).                        *)
(***************************************************************************)
\* the same letter, in either case
SameLetter(a, b) ==
  a = b \/ \E i \in DOMAIN UpperChars : {a, b} = {UpperChars[i], LowerChars[i]}

\* the query holds one of the trigger words, whatever the case of its letters
MentionsTrigger(query) ==
  \E word \in search_triggers :
    \E i \in 0..(Len(query) - Len(word)) :
      \A k \in 1..Len(word) : SameLetter(query[i + k], word[k])

\* the attempt did not produce a usable reply: an exception, or blank text
AttemptFailed(o) ==
  o.kind = "error" \/ \A k \in 1..Len(o.text) : IsSpace(o.text[k])

\* the language model is reached: the key is set and the client is built
ModelReachable(env) == env.key /\ env.setup.kind = "text"

FixedFailureMessages ==
  {InvalidKeyMessage, QuotaMessage, NetworkMessage, GenericMessage}

\* C5, as claimed: a query with a trigger word (in any case) goes to the
\* Search Fallback only and the search result comes back with the input
\* history; a query with no trigger word invokes the language model and never
\* the Search Fallback.
C5_Original ==
  call.made =>
    IF MentionsTrigger(call.query)
    THEN /\ call.result.searchCalls = 1
         /\ call.result.llmCalls = 0
         /\ ~call.result.raised =>
              /\ call.result.text = call.env.search.text
              /\ call.result.history = call.history
              /\ call.result.same
    ELSE /\ call.result.searchCalls = 0
         /\ call.result.llmCalls >= 1

\* C5, amended: as claimed for a query with a trigger word; a query with no
\* trigger word never reaches the Search Fallback, and it invokes the language
\* model (one to three times) exactly when the Gemini key is set and the client
\* could be built: without them get_llm_response answers with a fixed message
\* and the model is not invoked.
C5_Routing ==
  call.made =>
    IF MentionsTrigger(call.query)
    THEN /\ call.result.searchCalls = 1
         /\ call.result.llmCalls = 0
         /\ ~call.result.raised =>
              /\ call.result.text = call.env.search.text
              /\ call.result.history = call.history
              /\ call.result.same
    ELSE /\ call.result.searchCalls = 0
         /\ ~call.result.raised
         /\ IF ModelReachable(call.env)
            THEN call.result.llmCalls \in 1..max_retries
            ELSE /\ call.result.llmCalls = 0
                 /\ call.result.history = call.history
                 /\ call.result.text \in {KeyMissingMessage} \cup FixedFailureMessages

\* C5, its case: a query whose trigger word is capitalised was answered by the
\* Search Fallback, with a history that is not empty.
C5_Witness ==
  /\ call.made
  /\ MentionsTrigger(call.query)
  /\ ~Contains(call.query, <<"n","e","w","s">>)
  /\ Contains(call.query, <<"N","e","w","s">>)
  /\ call.history # <<>>
  /\ ~call.result.raised
  /\ call.result.text # <<>>

\* C6: when the language model fails on all three attempts of one
\* get_llm_response call, it was invoked exactly three times, the text
\* returned is one of the fixed failure messages (the one the last error
\* selects) and the history returned is the caller's history, unchanged.
C6_ThreeFailures ==
  ( /\ call.made
    /\ ~MentionsTrigger(call.query)
    /\ ModelReachable(call.env)
    /\ \A a \in 1..max_retries : AttemptFailed(call.env.attempts[a]) )
  => /\ call.result.llmCalls = 3
     /\ call.result.sleeps = 2
     /\ ~call.result.raised
     /\ call.result.text \in FixedFailureMessages
     /\ call.result.history = call.history
     /\ call.result.same

\* C6, its case: three failed attempts, the last one a quota error, with a
\* history that is not empty.
C6_Witness ==
  /\ call.made
  /\ ~MentionsTrigger(call.query)
  /\ ModelReachable(call.env)
  /\ \A a \in 1..max_retries : AttemptFailed(call.env.attempts[a])
  /\ call.env.attempts[1].kind = "text"
  /\ call.env.attempts[3].kind = "error"
  /\ call.result.text = QuotaMessage
  /\ call.history # <<>>

\* C7, as claimed: agent_response raises no exception, whatever the query and
\* whichever capability fails.
C7_NeverRaises == call.made => ~call.result.raised

(***************************************************************************)
(* app/services/stt.py, as the session uses it: the turn handler and the   *)
(* two calls the receive loop makes.                                       *)
(***************************************************************************)
\* the end-of-stream sentinel: no chunk of bytes equals it
None == <<-1>>

\* _process_transcript_text: strip, collapse each run of white space to one
\* blank, capitalise the first letter
RECURSIVE CollapseSpaces(_)
CollapseSpaces(s) ==
  IF s = <<>> THEN <<>>
  ELSE IF IsSpace(s[1])
  THEN LET rest == CollapseSpaces(Tail(s))
       IN  IF Len(s) > 1 /\ IsSpace(s[2]) THEN rest ELSE <<" ">> \o rest
  ELSE <<s[1]>> \o CollapseSpaces(Tail(s))

process_transcript_text(text) ==
  IF text = <<>> THEN <<>>
  ELSE LET cleaned == CollapseSpaces(Strip(text))
       IN  IF cleaned # <<>> /\ cleaned[1] \notin {UpperChars[i] : i \in DOMAIN UpperChars}
           THEN <<UpperChar(cleaned[1])>> \o Tail(cleaned)
           ELSE cleaned

\* stream_audio: an empty chunk is not queued
stream_audio(queue, audio_chunk) ==
  IF audio_chunk # <<>> THEN Append(queue, audio_chunk) ELSE queue

\* close: the sentinel is put on the queue, whatever the handle's state
close_put(queue) == Append(queue, None)

\* stream_audio, as a step of its caller
Feed(audio_chunk) ==
  /\ q' = stream_audio(q, audio_chunk)
  /\ fed' = IF q' # q THEN Append(fed, audio_chunk) ELSE fed
  /\ UNCHANGED <<closeCalls, closedAt, workerVars>>

\* close, as a step of its caller: the sentinel is queued and the join of
\* the thread, bounded by its timeout, returns
CloseHandle ==
  /\ q' = close_put(q)
  /\ closeCalls' = closeCalls + 1
  /\ closedAt' = IF closeCalls = 0 THEN Len(fed) ELSE closedAt
  /\ UNCHANGED <<fed, workerVars>>

(***************************************************************************)
(* app/main.py: websocket_endpoint and handle_transcript.                  *)
(*                                                                         *)
(* The coroutines run on one event loop: a step of a coroutine runs from   *)
(* one await to the next.  agent_response is called without await, so the  *)
(* loop runs nothing else from the call to its return; tts.speak runs on   *)
(* an executor thread while the coroutine is suspended.                    *)
(***************************************************************************)
\* a plausible variant: agent_response off-loaded to a thread, the loop free
LoopFreeOffloaded == TRUE

\* no coroutine is inside the synchronous agent_response call
LoopFree == \A t \in Turns : turn[t].pc # "agent"

\* a plausible variant: one turn at a time, a turn starts when those before
\* it have ended
StartableSerialized(t) ==
  /\ turn[t].pc = "scheduled"
  /\ \A u \in Turns : u < t => turn[u].pc \in {"done", "crashed"}

\* run_coroutine_threadsafe: the task starts as soon as the loop takes it
Startable(t) == turn[t].pc = "scheduled"

Event(type, t, sentence) == [type |-> type, turn |-> t, sentence |-> sentence]

\* the connection's answer to send_json: sent, or an exception once closed
Sent(type, t, sentence) == Append(events, Event(type, t, sentence))

\* the coroutine is over: it returned ("done") or an exception left it
\* ("crashed"); its locals are gone
Ended(how) == [IdleTurn EXCEPT !.pc = how]

\* a plausible slip: the except clause logs the error and sends nothing
ExceptSilent(t) ==
  /\ events' = events
  /\ turn' = [turn EXCEPT ![t] = Ended("done")]

\* the except clause of handle_transcript: one error event, after which the
\* coroutine returns; when that send raises too, the exception leaves the task
Except(t) ==
  IF wsOpen
  THEN /\ events' = Sent("error", t, 0)
       /\ turn' = [turn EXCEPT ![t] = Ended("done")]
  ELSE /\ events' = events
       /\ turn' = [turn EXCEPT ![t] = Ended("crashed")]

\* a plausible slip: the loop over the sentences skips none
SpeakableAny(sentence) == TRUE

\* if sentence.strip():
Speakable(sentence) == Strip(sentence) # <<>>

\* the for loop from sentence i on: the first sentence that is spoken, or
\* one past the last
RECURSIVE NextSpoken(_, _)
NextSpoken(sentences, i) ==
  IF i > Len(sentences) THEN i
  ELSE IF Speakable(sentences[i]) THEN i
  ELSE NextSpoken(sentences, i + 1)

\* the loop goes on at sentence i: it suspends in run_in_executor for the
\* next spoken sentence, or the coroutine returns
Continue(t, r, i) ==
  LET n == NextSpoken(r.sentences, i)
  IN  turn' = [turn EXCEPT ![t] =
                 IF n > Len(r.sentences)
                 THEN Ended("done")
                 ELSE [r EXCEPT !.pc = "tts_wait", !.i = n]]

\* what the provider can report as a turn: padded, lower-case, blank
TurnTranscripts == { <<" ","a","n","y"," "," ","n","e","w","s"," ">>, <<"h","i">>, <<" "," ">> }

\* the capabilities' outcomes within a session
SessionEnvs ==
  { Env(TRUE, Text(<<>>), <<Text(<<" ","H","i","!"," ">>), Text(<<>>), Text(<<>>)>>,
        Text(<<"I","t"," ","i","s"," ","5","."," "," ","S","u","n","n","y","!">>)),
    Env(TRUE, Text(<<>>), <<Error(<<"b","o","o","m">>), Text(<<" ">>), Error(<<"b","o","o","m">>)>>,
        Error(<<"b","o","o","m">>)),
    Env(TRUE, Text(<<>>), <<Text(<<>>), Text(<<" ","H","i","!"," ">>), Text(<<>>)>>,
        Text(<<" ","\n">>)) }

\* what tts.speak can do with one sentence
TtsOutcomes == {"audio", "none", "raise"}

\* the n-th inbound frame, when binary: its bytes, or no bytes at all
Frames(n) == {<<>>, <<n>>}

\* a plausible slip: the constructor does not look at the credential
ConstructUnchecked(valid, connected) ==
  /\ phase = "accepted"
  /\ phase' = "streaming"
  /\ client' = 1
  /\ conn' = [conn EXCEPT ![1] = "up"]
  /\ thread' = [thread EXCEPT ![1] = [pc |-> "streaming", client |-> 1]]
  /\ UNCHANGED <<call, api_key, arrived, turnEvent, wsOpen, received, chat_history, turn, events,
                 q, closeCalls, fed, closedAt, wq, delivered, errors>>

\* The transcriber is constructed with the callback only; the credential is
\* the environment's, as in create_transcriber.  The constructor raises
\* ValueError without a key and with a key that does not validate, before
\* it makes the client; otherwise it makes the client and starts the first
\* thread, and raises TimeoutError when the thread has not connected in
\* time.  It is called outside the try block: an exception leaves
\* websocket_endpoint.
Construct(valid, connected) ==
  /\ phase = "accepted"
  /\ IF api_key = <<>> \/ ~valid
     THEN /\ phase' = "config_error"
          /\ UNCHANGED <<client, conn, thread>>
     ELSE /\ phase' = IF connected THEN "streaming" ELSE "connect_timeout"
          /\ client' = 1
          /\ conn' = [conn EXCEPT ![1] = IF connected THEN "up" ELSE "new"]
          /\ thread' = [thread EXCEPT ![1] =
                          [pc |-> IF connected THEN "streaming" ELSE "connecting",
                           client |-> 1]]
  /\ UNCHANGED <<call, api_key, arrived, turnEvent, wsOpen, received, chat_history, turn, events,
                 q, closeCalls, fed, closedAt, wq, delivered, errors>>

\* a plausible slip: every turn event goes to the final callback
OnTurnAnyFinal(transcript, end_of_turn) ==
  /\ phase \in {"streaming", "closed"}
  /\ \E t \in Turns : turn[t].pc = "none"
  /\ turnEvent' = TurnEvent(transcript, end_of_turn)
  /\ LET text == Strip(transcript)
         t == CHOOSE u \in Turns :
                turn[u].pc = "none" /\ \A v \in Turns : v < u => turn[v].pc # "none"
     IN  IF text # <<>>
         THEN turn' = [turn EXCEPT ![t] = [IdleTurn EXCEPT
                         !.pc = "scheduled", !.text = process_transcript_text(text)]]
         ELSE turn' = turn
  /\ UNCHANGED <<call, api_key, arrived, phase, wsOpen, received, chat_history, events, sttVars>>

\* a plausible slip: the transcript is handed on as the provider sent it
OnTurnUnstripped(transcript, end_of_turn) ==
  /\ phase \in {"streaming", "closed"}
  /\ \E t \in Turns : turn[t].pc = "none"
  /\ turnEvent' = TurnEvent(transcript, end_of_turn)
  /\ LET t == CHOOSE u \in Turns :
                turn[u].pc = "none" /\ \A v \in Turns : v < u => turn[v].pc # "none"
     IN  IF end_of_turn
         THEN turn' = [turn EXCEPT ![t] = [IdleTurn EXCEPT
                         !.pc = "scheduled", !.text = transcript]]
         ELSE turn' = turn
  /\ UNCHANGED <<call, api_key, arrived, phase, wsOpen, received, chat_history, events, sttVars>>

\* a plausible slip: the final callback sends the final event itself, from
\* the provider's thread
OnTurnSends(transcript, end_of_turn) ==
  /\ phase \in {"streaming", "closed"}
  /\ \E t \in Turns : turn[t].pc = "none"
  /\ turnEvent' = TurnEvent(transcript, end_of_turn)
  /\ LET text == Strip(transcript)
         t == CHOOSE u \in Turns :
                turn[u].pc = "none" /\ \A v \in Turns : v < u => turn[v].pc # "none"
     IN  IF text # <<>> /\ end_of_turn
         THEN /\ turn' = [turn EXCEPT ![t] = [IdleTurn EXCEPT
                           !.pc = "scheduled", !.text = process_transcript_text(text)]]
              /\ events' = IF wsOpen THEN Sent("final", t, 0) ELSE events
         ELSE /\ turn' = turn
              /\ events' = events
  /\ UNCHANGED <<call, api_key, arrived, phase, wsOpen, received, chat_history, sttVars>>

\* _on_turn, on the provider's thread: a blank transcript is dropped; an
\* end-of-turn transcript goes to on_final_transcript, which schedules
\* handle_transcript on the loop; no partial callback is registered
OnTurn(transcript, end_of_turn) ==
  /\ phase \in {"streaming", "closed"}
  /\ \E t \in Turns : turn[t].pc = "none"
  /\ turnEvent' = TurnEvent(transcript, end_of_turn)
  /\ LET text == Strip(transcript)
         t == CHOOSE u \in Turns :
                turn[u].pc = "none" /\ \A v \in Turns : v < u => turn[v].pc # "none"
     IN  IF text # <<>> /\ end_of_turn
         THEN turn' = [turn EXCEPT ![t] = [IdleTurn EXCEPT
                         !.pc = "scheduled", !.text = process_transcript_text(text)]]
         ELSE turn' = turn
  /\ UNCHANGED <<call, api_key, arrived, phase, wsOpen, received, chat_history, events, sttVars>>

\* a plausible slip: the task goes to the agent call with no final event
TaskStartNoFinal(t) ==
  /\ LoopFree
  /\ Startable(t)
  /\ turn' = [turn EXCEPT ![t].pc = IF wsOpen THEN "final_sent" ELSE "crashed"]
  /\ UNCHANGED <<call, api_key, arrived, turnEvent, phase, wsOpen, received, chat_history, events, sttVars>>

\* handle_transcript up to its first await: the final event is sent, outside
\* the try block
TaskStart(t) ==
  /\ LoopFree
  /\ Startable(t)
  /\ IF wsOpen
     THEN /\ events' = Sent("final", t, 0)
          /\ turn' = [turn EXCEPT ![t].pc = "final_sent"]
     ELSE /\ events' = events
          /\ turn' = [turn EXCEPT ![t] = Ended("crashed")]
  /\ UNCHANGED <<call, api_key, arrived, turnEvent, phase, wsOpen, received, chat_history, sttVars>>

\* the coroutine resumes and calls agent_response on the loop's thread
AgentCall(t) ==
  /\ LoopFree
  /\ turn[t].pc = "final_sent"
  /\ turn' = [turn EXCEPT ![t].pc = "agent"]
  /\ UNCHANGED <<call, api_key, arrived, turnEvent, phase, wsOpen, received, chat_history, events, sttVars>>

\* a plausible slip: no try block around the agent call, its exception
\* ends the handler
AgentReturnUncaught(t, env) ==
  /\ turn[t].pc = "agent"
  /\ LET r == agent_response(turn[t].text, chat_history, env)
     IN  IF r.raised
         THEN /\ events' = events
              /\ turn' = [turn EXCEPT ![t] = Ended("crashed")]
              /\ chat_history' = chat_history
              /\ phase' = "closed"
              /\ CloseHandle
         ELSE /\ chat_history' = IF r.same THEN <<>> ELSE r.history
              /\ IF wsOpen
                 THEN /\ events' = Sent("assistant", t, 0)
                      /\ turn' = [turn EXCEPT ![t] = [@ EXCEPT
                                   !.pc = "assistant_sent", !.reply = r.text]]
                 ELSE Except(t)
              /\ UNCHANGED <<phase, sttVars>>
  /\ UNCHANGED <<call, api_key, arrived, turnEvent, wsOpen, received>>

\* agent_response returns or raises; the history is cleared and refilled from
\* the returned list (the same list, when the caller's history came back);
\* the assistant event is sent
AgentReturn(t, env) ==
  /\ turn[t].pc = "agent"
  /\ LET r == agent_response(turn[t].text, chat_history, env)
     IN  IF r.raised
         THEN /\ Except(t)
              /\ chat_history' = chat_history
         ELSE /\ chat_history' = IF r.same THEN <<>> ELSE r.history
              /\ IF wsOpen
                 THEN /\ events' = Sent("assistant", t, 0)
                      /\ turn' = [turn EXCEPT ![t] = [@ EXCEPT
                                   !.pc = "assistant_sent", !.reply = r.text]]
                 ELSE Except(t)
  /\ UNCHANGED <<call, api_key, arrived, turnEvent, phase, wsOpen, received, sttVars>>

\* after the assistant event: the reply is split and the loop begins
ResumeAfterAssistant(t) ==
  /\ LoopFree
  /\ turn[t].pc = "assistant_sent"
  /\ LET sentences == SplitSentences(Strip(turn[t].reply))
     IN  Continue(t, [turn[t] EXCEPT !.sentences = sentences,
                                     !.tts = [k \in 1..Len(sentences) |-> "unset"]], 1)
  /\ UNCHANGED <<call, api_key, arrived, turnEvent, phase, wsOpen, received, chat_history, events, sttVars>>

\* tts.speak(sentence.strip()) on the executor's thread
TtsRun(t, outcome) ==
  /\ turn[t].pc = "tts_wait"
  /\ turn' = [turn EXCEPT ![t] = [@ EXCEPT !.pc = "tts_ready",
                                           !.tts[turn[t].i] = outcome]]
  /\ UNCHANGED <<call, api_key, arrived, turnEvent, phase, wsOpen, received, chat_history, events, sttVars>>

\* the coroutine resumes with the executor's result: audio is sent, no
\* audio goes on to the next sentence, an exception goes to the except clause
ResumeAfterTts(t) ==
  /\ LoopFree
  /\ turn[t].pc = "tts_ready"
  /\ LET r == turn[t]
         result == r.tts[r.i]
     IN  IF result = "raise" \/ (result = "audio" /\ ~wsOpen)
         THEN Except(t)
         ELSE IF result = "audio"
         THEN /\ events' = Sent("audio", t, r.i)
              /\ turn' = [turn EXCEPT ![t].pc = "audio_sent"]
         ELSE /\ events' = events
              /\ Continue(t, r, r.i + 1)
  /\ UNCHANGED <<call, api_key, arrived, turnEvent, phase, wsOpen, received, chat_history, sttVars>>

\* after an audio event: the next sentence
ResumeAfterAudio(t) ==
  /\ LoopFree
  /\ turn[t].pc = "audio_sent"
  /\ Continue(t, turn[t], turn[t].i + 1)
  /\ UNCHANGED <<call, api_key, arrived, turnEvent, phase, wsOpen, received, chat_history, events, sttVars>>

\* the client sends a frame: it waits on the connection for the receive loop
FrameArrives ==
  /\ wsOpen
  /\ arrived < MaxFrames
  /\ arrived' = arrived + 1
  /\ UNCHANGED <<call, api_key, phase, wsOpen, received, chat_history, turn, turnEvent,
                 events, sttVars>>

\* the receive loop takes a binary frame and feeds the transcriber
ReceiveBytes(audio_chunk) ==
  /\ LoopFree
  /\ phase = "streaming"
  /\ wsOpen
  /\ received < arrived
  /\ received' = received + 1
  /\ Feed(audio_chunk)
  /\ UNCHANGED <<call, api_key, arrived, turnEvent, phase, wsOpen, chat_history, turn, events>>

\* the receive loop takes a text frame and acknowledges it
ReceiveText ==
  /\ LoopFree
  /\ phase = "streaming"
  /\ wsOpen
  /\ received < arrived
  /\ received' = received + 1
  /\ events' = Sent("ack", 0, 0)
  /\ UNCHANGED <<call, api_key, arrived, turnEvent, phase, wsOpen, chat_history, turn, sttVars>>

\* the client goes away
ClientDisconnect ==
  /\ wsOpen
  /\ phase # "accepted"
  /\ wsOpen' = FALSE
  /\ UNCHANGED <<call, api_key, arrived, turnEvent, phase, received, chat_history, turn, events, sttVars>>

\* a plausible slip: the handler returns without closing the transcriber
ReceiveDisconnectNoClose ==
  /\ LoopFree
  /\ phase = "streaming"
  /\ ~wsOpen
  /\ phase' = "closed"
  /\ UNCHANGED <<call, api_key, arrived, turnEvent, wsOpen, received, chat_history, turn, events,
                 sttVars>>

\* receive raises on the closed connection: the finally block closes the
\* transcriber and the handler returns
ReceiveDisconnect ==
  /\ LoopFree
  /\ phase = "streaming"
  /\ ~wsOpen
  /\ phase' = "closed"
  /\ CloseHandle
  /\ UNCHANGED <<call, api_key, arrived, turnEvent, wsOpen, received, chat_history, turn, events>>

Init ==
  /\ call = NoCall
  /\ api_key \in Credentials
  /\ InitSession
  /\ InitStt

Next ==
  \/ \E valid \in BOOLEAN, connected \in BOOLEAN : Construct(valid, connected)
  \/ \E transcript \in TurnTranscripts, end_of_turn \in BOOLEAN :
       OnTurn(transcript, end_of_turn)
  \/ \E t \in Turns : TaskStart(t)
  \/ \E t \in Turns : AgentCall(t)
  \/ \E t \in Turns, env \in SessionEnvs : AgentReturn(t, env)
  \/ \E t \in Turns : ResumeAfterAssistant(t)
  \/ \E t \in Turns, outcome \in TtsOutcomes : TtsRun(t, outcome)
  \/ \E t \in Turns : ResumeAfterTts(t)
  \/ \E t \in Turns : ResumeAfterAudio(t)
  \/ FrameArrives
  \/ \E audio_chunk \in Frames(received + 1) : ReceiveBytes(audio_chunk)
  \/ ReceiveText
  \/ ClientDisconnect
  \/ ReceiveDisconnect

Spec == Init /\ [][Next]_vars

(***************************************************************************)
(* Claims about the session (Spec).                                        *)
(***************************************************************************)
\* the places in the event log of turn t's events of one type
Places(type, t) ==
  {k \in 1..Len(events) : events[k].type = type /\ events[k].turn = t}

\* a text with no character other than white space
Blank(text) == \A k \in 1..Len(text) : IsSpace(text[k])

\* turn t is suspended inside its loop over the sentences
InSentenceLoop(t) == turn[t].pc \in {"tts_wait", "tts_ready", "audio_sent"}

\* C1: within one turn the final event comes before the assistant event, the
\* assistant event before every audio event, and the audio events come in
\* the order of the sentences; a turn has one final and one assistant event
\* at most.
C1_TurnOrder ==
  \A t \in Turns :
    /\ Cardinality(Places("final", t)) <= 1
    /\ Cardinality(Places("assistant", t)) <= 1
    /\ \A a \in Places("assistant", t) : \E f \in Places("final", t) : f < a
    /\ \A u \in Places("audio", t) : \E a \in Places("assistant", t) : a < u
    /\ \A u \in Places("audio", t), v \in Places("audio", t) :
         u < v => events[u].sentence < events[v].sentence

\* C1, its case: a turn has sent its final event, its assistant event and the
\* audio of two sentences, with an event of another turn among them.
C1_Witness ==
  \E t \in Turns :
    /\ Cardinality(Places("audio", t)) = 2
    /\ \E f \in Places("final", t), k \in 1..Len(events), u \in Places("audio", t) :
         f < k /\ k < u /\ events[k].turn \in Turns \ {t}

\* C2: every audio event a turn sends is for one sentence of its reply, a
\* sentence that is not blank and for which tts.speak returned audio, and a
\* later sentence than each one it has sent audio for; so a reply of N
\* sentences gets at most N audio events, one per sentence at most.
C2_AudioPerSentence ==
  /\ [](\A t \in Turns :
          InSentenceLoop(t) =>
            /\ Cardinality(Places("audio", t)) <= Len(turn[t].sentences)
            /\ \A k \in Places("audio", t) :
                 /\ events[k].sentence \in 1..turn[t].i
                 /\ ~Blank(turn[t].sentences[events[k].sentence])
                 /\ turn[t].tts[events[k].sentence] = "audio")
  /\ [][\A t \in Turns :
          (Len(events') = Len(events) + 1
             /\ events'[Len(events')].type = "audio"
             /\ events'[Len(events')].turn = t)
          => /\ turn[t].pc = "tts_ready"
             /\ events'[Len(events')].sentence = turn[t].i
             /\ turn[t].i \in 1..Len(turn[t].sentences)
             /\ ~Blank(turn[t].sentences[turn[t].i])
             /\ turn[t].tts[turn[t].i] = "audio"
             /\ \A k \in Places("audio", t) : events[k].sentence < turn[t].i]_vars

\* C2, its case: a reply of two sentences, no audio came back for the first
\* and the audio of the second is the turn's only audio event.
C2_Witness ==
  \E t \in Turns :
    /\ turn[t].pc = "audio_sent"
    /\ Len(turn[t].sentences) = 2
    /\ turn[t].tts = <<"none", "audio">>
    /\ Cardinality(Places("audio", t)) = 1

\* C3: at most one agent_response call of the session is in flight.
C3_OneAgentCall == Cardinality({t \in Turns : turn[t].pc = "agent"}) <= 1

\* C3, its case: a call is in flight while another turn, its final event
\* sent, waits to make its own.
C3_Witness ==
  \E t \in Turns, u \in Turns :
    turn[t].pc = "agent" /\ turn[u].pc = "final_sent"

\* C4: turns are not serialized: while a turn is suspended inside its loop
\* over the sentences, with audio already sent, and no agent call holds the
\* loop, a turn that is scheduled is free to start; and the step that starts
\* a turn puts its final event next in the event log.
C4_TurnsNotSerialized ==
  /\ [](\A t \in Turns, u \in Turns :
          ( /\ t # u
            /\ InSentenceLoop(t)
            /\ Places("audio", t) # {}
            /\ LoopFree
            /\ turn[u].pc = "scheduled" )
          => Startable(u))
  /\ [][\A u \in Turns :
          (turn[u].pc = "scheduled" /\ turn'[u].pc = "final_sent")
          => events' = Append(events, Event("final", u, 0))]_vars

\* C4, its case: an event of one turn lies between two audio events of
\* another turn, which was inside its loop when the other turn began.
C4_Witness ==
  \E t \in Turns, u \in Turns :
    /\ t < u
    /\ \E i \in Places("audio", t), k \in Places("audio", t), j \in 1..Len(events) :
         i < j /\ j < k /\ events[j].turn = u /\ events[j].type = "final"

Scheduled(t) == turn[t].pc = "none" /\ turn'[t].pc # "none"

\* C13: a task is scheduled only by an end-of-turn event, one task for the
\* event, with the event's processed text; a partial event changes nothing
\* but the record of the last event; an end-of-turn event that follows a
\* partial one with the same transcript schedules exactly one task; and a
\* task calls agent_response only from the state after its final event,
\* which it never gets back to.
C13_OnlyFinalReachesCallback ==
  /\ [][\A t \in Turns :
          Scheduled(t) =>
            /\ turnEvent'.end_of_turn
            /\ turn'[t].pc = "scheduled"
            /\ turn'[t].text = process_transcript_text(Strip(turnEvent'.transcript))
            /\ \A u \in Turns \ {t} : turn'[u] = turn[u]]_vars
  /\ [][(turnEvent' # turnEvent /\ ~turnEvent'.end_of_turn)
          => /\ turn' = turn
             /\ events' = events
             /\ chat_history' = chat_history]_vars
  /\ [][( /\ ~turnEvent.end_of_turn
          /\ turnEvent'.end_of_turn
          /\ turnEvent'.transcript = turnEvent.transcript
          /\ ~Blank(turnEvent.transcript) )
          => Cardinality({t \in Turns : Scheduled(t)}) = 1]_vars
  /\ [][\A t \in Turns :
          /\ (turn[t].pc # "agent" /\ turn'[t].pc = "agent") => turn[t].pc = "final_sent"
          /\ (turn[t].pc # "final_sent" /\ turn'[t].pc = "final_sent")
               => turn[t].pc = "scheduled"
          /\ turn[t].pc # "none" => turn'[t].pc # "none"]_vars

\* C13, its case: the last event was an end-of-turn one, it is the only one
\* that started a task, and that task is inside agent_response.
C13_Witness ==
  /\ turnEvent.end_of_turn
  /\ \E t \in Turns :
       /\ turn[t].pc = "agent"
       /\ turn[t].text = process_transcript_text(Strip(turnEvent.transcript))
       /\ \A u \in Turns \ {t} : turn[u].pc = "none"

\* C14: an event with a blank transcript, end of turn or not, starts no task
\* and sends nothing; the text a task is scheduled with is not empty and has
\* no white space at either end.
C14_BlankSuppressed ==
  /\ [][(turnEvent' # turnEvent /\ Blank(turnEvent'.transcript))
          => /\ turn' = turn
             /\ events' = events]_vars
  /\ [][\A t \in Turns :
          Scheduled(t) => /\ turn'[t].text # <<>>
                          /\ Strip(turn'[t].text) = turn'[t].text]_vars

\* C14, its case: a blank end-of-turn event was handled and the session has
\* neither a task nor an event.
C14_Witness ==
  /\ turnEvent.end_of_turn
  /\ turnEvent.transcript # <<>>
  /\ Blank(turnEvent.transcript)
  /\ phase = "streaming"
  /\ \A t \in Turns : turn[t].pc = "none"
  /\ events = <<>>

\* one step of turn t's task
TaskStep(t) ==
  \/ TaskStart(t)
  \/ AgentCall(t)
  \/ \E env \in SessionEnvs : AgentReturn(t, env)
  \/ ResumeAfterAssistant(t)
  \/ \E outcome \in TtsOutcomes : TtsRun(t, outcome)
  \/ ResumeAfterTts(t)
  \/ ResumeAfterAudio(t)

\* The session as its tasks see it: the transcriber is constructed, turn
\* events arrive, the tasks run and the client may go away.  The receive
\* loop's frames are left to Spec: they neither start nor resume a task.
NextLive ==
  \/ \E valid \in BOOLEAN, connected \in BOOLEAN : Construct(valid, connected)
  \/ \E transcript \in TurnTranscripts, end_of_turn \in BOOLEAN :
       OnTurn(transcript, end_of_turn)
  \/ \E t \in Turns : TaskStep(t)
  \/ ClientDisconnect

\* turn t's task can take a step: it is scheduled or suspended and the loop
\* is free, or it waits for agent_response or for the executor
Ready(t) ==
  \/ turn[t].pc \in {"agent", "tts_wait"}
  \/ /\ LoopFree
     /\ turn[t].pc \in {"scheduled", "final_sent", "assistant_sent", "tts_ready",
                         "audio_sent"}

\* The event loop runs every task that is ready, agent_response returns
\* (its retries are bounded) and the executor finishes each tts.speak call:
\* weak fairness of each task's steps.
TaskFairness ==
  \A t \in Turns : []<>(~Ready(t)) \/ []<><<TaskStep(t)>>_vars

SpecLive == Init /\ [][NextLive]_vars /\ TaskFairness

\* C15: while the client is connected, a scheduled final transcript leads to
\* its final event, and a turn whose agent call or synthesis raised leads to
\* its error event.
C15_FinalThenError ==
  \A t \in Turns :
    /\ (turn[t].pc = "scheduled") ~> (Places("final", t) # {} \/ ~wsOpen)
    /\ (turn[t].pc = "agent")
         ~> (Places("assistant", t) # {} \/ Places("error", t) # {} \/ ~wsOpen)
    /\ (turn[t].pc = "tts_ready" /\ turn[t].tts[turn[t].i] = "raise")
         ~> (Places("error", t) # {} \/ ~wsOpen)

\* C15, its case: a turn whose synthesis raised has its final event and its
\* error event, and the client is still connected.
C15_Witness ==
  \E t \in Turns :
    /\ wsOpen
    /\ Places("final", t) # {}
    /\ Places("assistant", t) # {}
    /\ Places("error", t) # {}

\* this step is turn t's task leaving the try block by an exception of
\* agent_response or of tts.speak
Failing(t) ==
  \/ turn[t].pc = "agent" /\ turn'[t].pc \in {"done", "crashed"}
  \/ /\ turn[t].pc = "tts_ready"
     /\ turn[t].tts[turn[t].i] = "raise"
     /\ turn'[t] # turn[t]

\* C16: a turn has one error event at most; the step in which a turn's agent
\* call or synthesis raises sends the turn's error event, when the client is
\* connected, ends that task only, and leaves the receive loop, the
\* connection, the transcriber and the other tasks as they were.
C16_ErrorAtTurnBoundary ==
  /\ [](\A t \in Turns : Cardinality(Places("error", t)) <= 1)
  /\ [][\A t \in Turns :
          Failing(t) =>
            /\ events' = IF wsOpen THEN Append(events, Event("error", t, 0)) ELSE events
            /\ turn'[t].pc = IF wsOpen THEN "done" ELSE "crashed"
            /\ \A u \in Turns \ {t} : turn'[u] = turn[u]
            /\ phase' = phase
            /\ wsOpen' = wsOpen
            /\ received' = received
            /\ q' = q
            /\ closeCalls' = closeCalls]_vars

\* C16, its case: after a turn's error event the receive loop has
\* acknowledged a frame and another turn has begun; the session is still
\* streaming.
C16_Witness ==
  /\ phase = "streaming"
  /\ wsOpen
  /\ \E t \in Turns, u \in Turns :
       \E k \in Places("error", t), a \in Places("ack", 0), j \in Places("final", u) :
         k < a /\ a < j

\* C17, as claimed: when tts.speak returned no audio or raised for a
\* sentence and a later sentence of the reply is to be spoken, the task's
\* next step is the synthesis of that sentence.
C17_LaterSentencesSpoken ==
  [][\A t \in Turns :
       ( /\ turn[t].pc = "tts_ready"
         /\ turn[t].tts[turn[t].i] \in {"none", "raise"}
         /\ NextSpoken(turn[t].sentences, turn[t].i + 1) <= Len(turn[t].sentences)
         /\ turn'[t] # turn[t] )
       => /\ turn'[t].pc = "tts_wait"
          /\ turn'[t].i = NextSpoken(turn[t].sentences, turn[t].i + 1)]_vars

\* C18: the transcriber is closed once at most, and the handler has returned
\* from its finally block exactly when it has been closed once.
C18_ClosedOnce ==
  /\ closeCalls <= 1
  /\ phase = "closed" <=> closeCalls = 1
  /\ closeCalls = 1 => q # <<>> /\ q[Len(q)] = None

\* C18, its case: the client went away after audio was fed, and the handler
\* has closed the transcriber.
C18_Witness ==
  /\ phase = "closed"
  /\ ~wsOpen
  /\ fed # <<>>
  /\ closeCalls = 1

\* C20, as claimed: when a turn's reply came from web_search or is one of
\* the model's failure messages, the step that takes the reply leaves the
\* session's history as it was.
C20_HistoryKept ==
  [][\A t \in Turns :
       ( /\ turn[t].pc = "agent"
         /\ turn'[t].pc = "assistant_sent"
         /\ \/ TriggerMatch(turn[t].text)
            \/ turn'[t].reply \in FixedFailureMessages )
       => chat_history' = chat_history]_vars

\* C21, as claimed: whatever the tasks are doing, a frame that waits on the
\* connection of a streaming session can be taken by the receive loop: the
\* loop is not held by an agent_response call.
C21_IngestionDuringCall ==
  (phase = "streaming" /\ wsOpen /\ received < arrived) => LoopFree

\* C22: the step of the final callback, on the provider's thread, records
\* the event and schedules the task and does nothing else: no event is sent,
\* the history, the connection and the receive loop are as they were.  An
\* event is sent only by a step of the receive loop or by a step of a task
\* on the loop, and the history changes only in the step of a task that
\* takes the return of agent_response.
C22_CallbackOnlySchedules ==
  /\ [][(turnEvent' # turnEvent \/ \E t \in Turns : Scheduled(t))
          => /\ events' = events
             /\ chat_history' = chat_history
             /\ wsOpen' = wsOpen
             /\ phase' = phase
             /\ received' = received]_vars
  /\ [][events' # events
          => \/ received' = received + 1
             \/ \E t \in Turns :
                  /\ turn[t].pc \in {"scheduled", "agent", "tts_ready"}
                  /\ turn[t].pc = "agent" \/ LoopFree
                  /\ turn'[t] # turn[t]]_vars
  /\ [][chat_history' # chat_history
          => \E t \in Turns : turn[t].pc = "agent" /\ turn'[t].pc # "agent"]_vars

\* C22, its case: the callback has scheduled a turn in a session that has
\* history and has sent events; nothing of that turn has been sent.
C22_Witness ==
  \E t \in Turns :
    /\ turn[t].pc = "scheduled"
    /\ chat_history # <<>>
    /\ events # <<>>
    /\ \A k \in 1..Len(events) : events[k].turn # t

\* C25, as claimed: once the handler has returned, no task of the session
\* starts an agent_response call or a tts.speak call, and no event is sent.
C25_ClosedCancelsWork ==
  [][phase = "closed" =>
       /\ events' = events
       /\ \A t \in Turns :
            /\ turn'[t].pc = "agent" => turn[t].pc = "agent"
            /\ turn'[t].pc = "tts_wait" => turn[t].pc = "tts_wait"]_vars

(***************************************************************************)
(* app/services/stt.py: the background threads of the transcriber.         *)
(*                                                                         *)
(* A thread's runner connects self.client, hands the generator over the    *)
(* queue to that client's stream call, and at the end disconnects          *)
(* self.client.  A client sends the chunks it was handed, in order, while  *)
(* its connection is up.  _reconnect replaces self.client and starts one   *)
(* more thread; nothing stops the thread that was reading the queue.       *)
(***************************************************************************)
\* what the provider can report to _on_error
ProviderErrors == { <<"C","o","n","n","e","c","t","i","o","n"," ","l","o","s","t">>, <<"b","a","d"," ","a","u","d","i","o">> }

\* if "connection" in str(error).lower():
IsConnectionError(error) == Contains(Lower(error), <<"c","o","n","n","e","c","t","i","o","n">>)

\* client.disconnect(terminate=True): what was handed to the client is sent
\* and its connection ends; or the call raises, which the callers swallow
Disconnected(c, raises) ==
  /\ conn' = IF raises \/ conn[c] # "up" THEN conn ELSE [conn EXCEPT ![c] = "down"]
  /\ delivered' = IF raises \/ conn[c] # "up" THEN delivered ELSE delivered \o wq[c]
  /\ wq' = IF raises \/ conn[c] # "up" THEN wq ELSE [wq EXCEPT ![c] = <<>>]

\* self._q.get(): the oldest item leaves the queue
Take(queue) == [item |-> Head(queue), rest |-> Tail(queue)]

\* the caller of the transcriber feeds a chunk
StreamAudio(audio_chunk) ==
  /\ received < MaxChunks
  /\ received' = received + 1
  /\ Feed(audio_chunk)
  /\ UNCHANGED <<call, api_key, arrived, turnEvent, phase, wsOpen, chat_history, turn, events>>

\* the caller of the transcriber closes it
Close ==
  /\ closeCalls < MaxCloses
  /\ CloseHandle
  /\ UNCHANGED <<call, sessionVars>>

\* _audio_generator, one turn of its loop: the sentinel ends the generator
\* and with it the stream call; a chunk is yielded to the client the thread
\* streams to, which keeps it for sending while its connection is up
WorkerGet(w) ==
  /\ thread[w].pc = "streaming"
  /\ q # <<>>
  /\ LET got == Take(q)
         c == thread[w].client
     IN  /\ q' = got.rest
         /\ IF got.item = None
            THEN /\ thread' = [thread EXCEPT ![w].pc = "teardown"]
                 /\ wq' = wq
            ELSE /\ thread' = thread
                 /\ wq' = IF conn[c] = "up" THEN [wq EXCEPT ![c] = Append(@, got.item)]
                                            ELSE wq
  /\ UNCHANGED <<call, sessionVars, closeCalls, fed, closedAt, client, conn,
                 delivered, errors>>

\* a plausible slip: get() with no timeout, the thread waits on the empty
\* queue for ever
WorkerBlocks(w) ==
  /\ thread[w].pc = "streaming"
  /\ q = <<>>
  /\ UNCHANGED vars

\* _audio_generator: no item for 30 seconds, queue.Empty ends the generator
WorkerTimeout(w) ==
  /\ thread[w].pc = "streaming"
  /\ q = <<>>
  /\ thread' = [thread EXCEPT ![w].pc = "teardown"]
  /\ UNCHANGED <<call, sessionVars, q, closeCalls, fed, closedAt, client, conn, wq,
                 delivered, errors>>

\* the client's sender: the oldest chunk it holds reaches the provider
ClientSend(c) ==
  /\ conn[c] = "up"
  /\ wq[c] # <<>>
  /\ delivered' = Append(delivered, Head(wq[c]))
  /\ wq' = [wq EXCEPT ![c] = Tail(@)]
  /\ UNCHANGED <<call, sessionVars, q, closeCalls, fed, closedAt, thread, client,
                 conn, errors>>

\* the runner's finally block: self.client, whichever it is by now, is
\* disconnected and the thread ends
WorkerTeardown(w, raises) ==
  /\ thread[w].pc = "teardown"
  /\ Disconnected(client, raises)
  /\ thread' = [thread EXCEPT ![w].pc = "dead"]
  /\ UNCHANGED <<call, sessionVars, q, closeCalls, fed, closedAt, client, errors>>

\* the runner of a thread started by _reconnect: self.client connects and
\* the stream call begins, or connect raises and the runner goes to its
\* finally block
WorkerConnect(w, connected) ==
  /\ thread[w].pc = "connecting"
  /\ IF connected
     THEN /\ conn' = [conn EXCEPT ![client] = "up"]
          /\ thread' = [thread EXCEPT ![w] = [pc |-> "streaming", client |-> client]]
          /\ errors' = errors
     ELSE /\ conn' = conn
          /\ thread' = [thread EXCEPT ![w].pc = "teardown"]
          /\ errors' = errors
  /\ UNCHANGED <<call, sessionVars, q, closeCalls, fed, closedAt, client, wq, delivered>>

\* _on_error: the error is counted; a connection error goes to _reconnect,
\* which disconnects the client, makes a new one and starts a thread for it.
\* `lost` says whether the error took the connection down.
OnError(error, lost, raises) ==
  /\ errors < MaxErrors
  /\ \E w \in Workers : thread[w].pc \in {"streaming", "teardown"}
  /\ errors' = errors + 1
  /\ LET was == IF lost THEN [conn EXCEPT ![client] = "down"] ELSE conn
         off == raises \/ was[client] # "up"
         next == client + 1
     IN  IF IsConnectionError(error)
         THEN /\ conn' = IF off THEN was ELSE [was EXCEPT ![client] = "down"]
              /\ delivered' = IF off THEN delivered ELSE delivered \o wq[client]
              /\ wq' = IF off THEN wq ELSE [wq EXCEPT ![client] = <<>>]
              /\ client' = next
              /\ thread' = [thread EXCEPT ![next] = [pc |-> "connecting", client |-> next]]
         ELSE /\ conn' = was
              /\ UNCHANGED <<delivered, wq, client, thread>>
  /\ UNCHANGED <<call, sessionVars, q, closeCalls, fed, closedAt>>

NextStt ==
  \/ \E audio_chunk \in Frames(received + 1) : StreamAudio(audio_chunk)
  \/ Close
  \/ \E w \in Workers : WorkerGet(w)
  \/ \E w \in Workers : WorkerTimeout(w)
  \/ \E c \in Workers : ClientSend(c)
  \/ \E w \in Workers, raises \in BOOLEAN : WorkerTeardown(w, raises)
  \/ \E w \in Workers, connected \in BOOLEAN : WorkerConnect(w, connected)
  \/ \E error \in ProviderErrors, lost \in BOOLEAN, raises \in BOOLEAN :
       OnError(error, lost, raises)

\* the transcriber as its constructor leaves it when it does not raise: the
\* queue empty, the first thread connected and about to read the queue
InitStreaming ==
  /\ call = NoCall
  /\ api_key \in Credentials \ {<<>>}
  /\ phase = "streaming"
  /\ wsOpen = TRUE
  /\ arrived = 0
  /\ received = 0
  /\ chat_history = <<>>
  /\ turn = [t \in Turns |-> IdleTurn]
  /\ turnEvent = NoEvent
  /\ events = <<>>
  /\ q = <<>>
  /\ closeCalls = 0
  /\ fed = <<>>
  /\ closedAt = 0
  /\ thread = [w \in Workers |-> IF w = 1 THEN [pc |-> "streaming", client |-> 1]
                                          ELSE NoThread]
  /\ client = 1
  /\ conn = [c \in Workers |-> IF c = 1 THEN "up" ELSE "new"]
  /\ wq = [c \in Workers |-> <<>>]
  /\ delivered = <<>>
  /\ errors = 0

SpecStt == InitStreaming /\ [][NextStt]_vars

(***************************************************************************)
(* Claims about the transcriber (SpecStt).                                 *)
(***************************************************************************)
\* every background thread has ended
WorkersEnded == \A w \in Workers : thread[w].pc \in {"unstarted", "dead"}

\* the places of a chunk in what the provider received
Delivered(chunk) == \E k \in 1..Len(delivered) : delivered[k] = chunk

\* C8, as claimed: a close of a handle that is already closed leaves the
\* audio queue as it was.
C8_SecondCloseNoOp ==
  [][(closeCalls >= 1 /\ closeCalls' = closeCalls + 1) => q' = q]_vars

\* C9, as claimed: the provider receives the chunks in the order they were
\* fed: of two chunks it received, the one fed first came first.
C9_Fifo ==
  \A i \in 1..Len(delivered), j \in 1..Len(delivered) :
    i < j => \E a \in 1..Len(fed), b \in 1..Len(fed) :
               a < b /\ fed[a] = delivered[i] /\ fed[b] = delivered[j]

\* C10, as claimed: once close has been called and every background thread
\* has ended, the provider has received every chunk that was fed before close.
C10_PendingSentBeforeTeardown ==
  (closeCalls >= 1 /\ WorkersEnded) =>
    \A k \in 1..closedAt : Delivered(fed[k])

\* C11, as claimed: a chunk fed after close was called never reaches the
\* provider.
C11_DroppedAfterClose ==
  closeCalls >= 1 => \A k \in (closedAt + 1)..Len(fed) : ~Delivered(fed[k])

\* a thread started by _reconnect has ended, or is ending, without its
\* client ever being connected
FailedReconnect ==
  \E w \in Workers \ {1} :
    thread[w].pc \in {"teardown", "dead"} /\ conn[thread[w].client] = "new"

\* C19, as claimed: once a reconnect has failed, no further reconnect is
\* attempted: self.client is not replaced again.
C19_NoReconnectAfterFailure ==
  [][FailedReconnect => client' = client]_vars

\* one step of background thread w
WorkerStep(w) ==
  \/ WorkerGet(w)
  \/ WorkerTimeout(w)
  \/ \E raises \in BOOLEAN : WorkerTeardown(w, raises)
  \/ \E connected \in BOOLEAN : WorkerConnect(w, connected)

\* A started thread goes on: connect returns or raises, get returns an item
\* or raises queue.Empty after its 30 seconds, the finally block ends.
WorkerFairness == \A w \in Workers : WF_vars(WorkerStep(w))

SpecSttLive == InitStreaming /\ [][NextStt]_vars /\ WorkerFairness

\* C23: the step of close queues the sentinel and is over without waiting
\* for any thread (its join is bounded), whatever the threads' state; and
\* once close has been called, from some moment on every background thread
\* has ended.
C23_CloseReturnsWorkersEnd ==
  /\ [][closeCalls' = closeCalls + 1 => (q' = Append(q, None) /\ thread' = thread)]_vars
  /\ (closeCalls >= 1) ~> [](WorkersEnded)

\* C23, its case: close was called after the first thread had ended, a
\* reconnect had started another one, and every thread has ended.
C23_Witness ==
  /\ closeCalls >= 1
  /\ client >= 2
  /\ thread[1].pc = "dead"
  /\ thread[2].pc = "dead"
  /\ WorkersEnded
  /\ q # <<>>

\* C24, as claimed: once every background thread of the handle has ended
\* after a provider error, no further chunk is put on its queue.
C24_NoFeedToDeadHandle ==
  [][(WorkersEnded /\ errors >= 1) => fed' = fed]_vars

====
